---------------------------- MODULE Spec2Model ----------------------------
(***************************************************************************)
(* Model of wcwidth.c: the column width of ISO 10646 code points and of    *)
(* code point strings (mk_wcwidth, mk_wcswidth and their _cjk variants),   *)
(* with the two interval tables reproduced entry for entry.                *)
(***************************************************************************)
EXTENDS Integers, Sequences, FiniteSets, TLC

(***************************************************************************)
(* unsigned int (32 bits).  TLC integers stop at 2^31 - 1, so a code point *)
(* is the pair <<high 16 bits, low 16 bits>> and the C comparisons on      *)
(* unsigned values are the lexicographic comparisons of the pairs.         *)
(***************************************************************************)
U32(hi, lo) == <<hi, lo>>

U(k) == U32(k \div 65536, k % 65536)

ToInt(u) == u[1] * 65536 + u[2]

Lt(a, b) == a[1] < b[1] \/ (a[1] = b[1] /\ a[2] < b[2])

Gt(a, b) == Lt(b, a)

Le(a, b) == ~Lt(b, a)

Ge(a, b) == ~Lt(a, b)

UINT_MAX == U32(65535, 65535)

\* struct interval { unsigned int first; unsigned int last; }
I(f, l) == [first |-> U(f), last |-> U(l)]

\* table[k] of the C source (arrays are indexed from 0)
At(table, k) == table[k + 1]

\* sorted list of non-overlapping intervals of non-spacing characters
combining == <<
    I(\h00ad, \h00ad), I(\h0300, \h036f), I(\h0483, \h0489), I(\h0591, \h05bd),
    I(\h05bf, \h05bf), I(\h05c1, \h05c2), I(\h05c4, \h05c5), I(\h05c7, \h05c7),
    I(\h0600, \h0605), I(\h0610, \h061a), I(\h061c, \h061c), I(\h064b, \h065f),
    I(\h0670, \h0670), I(\h06d6, \h06dd), I(\h06df, \h06e4), I(\h06e7, \h06e8),
    I(\h06ea, \h06ed), I(\h070f, \h070f), I(\h0711, \h0711), I(\h0730, \h074a),
    I(\h07a6, \h07b0), I(\h07eb, \h07f3), I(\h0816, \h0819), I(\h081b, \h0823),
    I(\h0825, \h0827), I(\h0829, \h082d), I(\h0859, \h085b), I(\h08e3, \h0902),
    I(\h093a, \h093a), I(\h093c, \h093c), I(\h0941, \h0948), I(\h094d, \h094d),
    I(\h0951, \h0957), I(\h0962, \h0963), I(\h0981, \h0981), I(\h09bc, \h09bc),
    I(\h09c1, \h09c4), I(\h09cd, \h09cd), I(\h09e2, \h09e3), I(\h0a01, \h0a02),
    I(\h0a3c, \h0a3c), I(\h0a41, \h0a42), I(\h0a47, \h0a48), I(\h0a4b, \h0a4d),
    I(\h0a51, \h0a51), I(\h0a70, \h0a71), I(\h0a75, \h0a75), I(\h0a81, \h0a82),
    I(\h0abc, \h0abc), I(\h0ac1, \h0ac5), I(\h0ac7, \h0ac8), I(\h0acd, \h0acd),
    I(\h0ae2, \h0ae3), I(\h0b01, \h0b01), I(\h0b3c, \h0b3c), I(\h0b3f, \h0b3f),
    I(\h0b41, \h0b44), I(\h0b4d, \h0b4d), I(\h0b56, \h0b56), I(\h0b62, \h0b63),
    I(\h0b82, \h0b82), I(\h0bc0, \h0bc0), I(\h0bcd, \h0bcd), I(\h0c00, \h0c00),
    I(\h0c3e, \h0c40), I(\h0c46, \h0c48), I(\h0c4a, \h0c4d), I(\h0c55, \h0c56),
    I(\h0c62, \h0c63), I(\h0c81, \h0c81), I(\h0cbc, \h0cbc), I(\h0cbf, \h0cbf),
    I(\h0cc6, \h0cc6), I(\h0ccc, \h0ccd), I(\h0ce2, \h0ce3), I(\h0d01, \h0d01),
    I(\h0d41, \h0d44), I(\h0d4d, \h0d4d), I(\h0d62, \h0d63), I(\h0dca, \h0dca),
    I(\h0dd2, \h0dd4), I(\h0dd6, \h0dd6), I(\h0e31, \h0e31), I(\h0e34, \h0e3a),
    I(\h0e47, \h0e4e), I(\h0eb1, \h0eb1), I(\h0eb4, \h0eb9), I(\h0ebb, \h0ebc),
    I(\h0ec8, \h0ecd), I(\h0f18, \h0f19), I(\h0f35, \h0f35), I(\h0f37, \h0f37),
    I(\h0f39, \h0f39), I(\h0f71, \h0f7e), I(\h0f80, \h0f84), I(\h0f86, \h0f87),
    I(\h0f8d, \h0f97), I(\h0f99, \h0fbc), I(\h0fc6, \h0fc6), I(\h102d, \h1030),
    I(\h1032, \h1037), I(\h1039, \h103a), I(\h103d, \h103e), I(\h1058, \h1059),
    I(\h105e, \h1060), I(\h1071, \h1074), I(\h1082, \h1082), I(\h1085, \h1086),
    I(\h108d, \h108d), I(\h109d, \h109d), I(\h135d, \h135f), I(\h1712, \h1714),
    I(\h1732, \h1734), I(\h1752, \h1753), I(\h1772, \h1773), I(\h17b4, \h17b5),
    I(\h17b7, \h17bd), I(\h17c6, \h17c6), I(\h17c9, \h17d3), I(\h17dd, \h17dd),
    I(\h180b, \h180e), I(\h18a9, \h18a9), I(\h1920, \h1922), I(\h1927, \h1928),
    I(\h1932, \h1932), I(\h1939, \h193b), I(\h1a17, \h1a18), I(\h1a1b, \h1a1b),
    I(\h1a56, \h1a56), I(\h1a58, \h1a5e), I(\h1a60, \h1a60), I(\h1a62, \h1a62),
    I(\h1a65, \h1a6c), I(\h1a73, \h1a7c), I(\h1a7f, \h1a7f), I(\h1ab0, \h1abe),
    I(\h1b00, \h1b03), I(\h1b34, \h1b34), I(\h1b36, \h1b3a), I(\h1b3c, \h1b3c),
    I(\h1b42, \h1b42), I(\h1b6b, \h1b73), I(\h1b80, \h1b81), I(\h1ba2, \h1ba5),
    I(\h1ba8, \h1ba9), I(\h1bab, \h1bad), I(\h1be6, \h1be6), I(\h1be8, \h1be9),
    I(\h1bed, \h1bed), I(\h1bef, \h1bf1), I(\h1c2c, \h1c33), I(\h1c36, \h1c37),
    I(\h1cd0, \h1cd2), I(\h1cd4, \h1ce0), I(\h1ce2, \h1ce8), I(\h1ced, \h1ced),
    I(\h1cf4, \h1cf4), I(\h1cf8, \h1cf9), I(\h1dc0, \h1df5), I(\h1dfc, \h1dff),
    I(\h200b, \h200f), I(\h202a, \h202e), I(\h2060, \h2064), I(\h2066, \h206f),
    I(\h20d0, \h20f0), I(\h2cef, \h2cf1), I(\h2d7f, \h2d7f), I(\h2de0, \h2dff),
    I(\h302a, \h302d), I(\h3099, \h309a), I(\ha66f, \ha672), I(\ha674, \ha67d),
    I(\ha69e, \ha69f), I(\ha6f0, \ha6f1), I(\ha802, \ha802), I(\ha806, \ha806),
    I(\ha80b, \ha80b), I(\ha825, \ha826), I(\ha8c4, \ha8c4), I(\ha8e0, \ha8f1),
    I(\ha926, \ha92d), I(\ha947, \ha951), I(\ha980, \ha982), I(\ha9b3, \ha9b3),
    I(\ha9b6, \ha9b9), I(\ha9bc, \ha9bc), I(\ha9e5, \ha9e5), I(\haa29, \haa2e),
    I(\haa31, \haa32), I(\haa35, \haa36), I(\haa43, \haa43), I(\haa4c, \haa4c),
    I(\haa7c, \haa7c), I(\haab0, \haab0), I(\haab2, \haab4), I(\haab7, \haab8),
    I(\haabe, \haabf), I(\haac1, \haac1), I(\haaec, \haaed), I(\haaf6, \haaf6),
    I(\habe5, \habe5), I(\habe8, \habe8), I(\habed, \habed), I(\hfb1e, \hfb1e),
    I(\hfe00, \hfe0f), I(\hfe20, \hfe2f), I(\hfeff, \hfeff), I(\hfff9, \hfffb),
    I(\h101fd, \h101fd), I(\h102e0, \h102e0), I(\h10376, \h1037a), I(\h10a01, \h10a03),
    I(\h10a05, \h10a06), I(\h10a0c, \h10a0f), I(\h10a38, \h10a3a), I(\h10a3f, \h10a3f),
    I(\h10ae5, \h10ae6), I(\h11001, \h11001), I(\h11038, \h11046), I(\h1107f, \h11081),
    I(\h110b3, \h110b6), I(\h110b9, \h110ba), I(\h110bd, \h110bd), I(\h11100, \h11102),
    I(\h11127, \h1112b), I(\h1112d, \h11134), I(\h11173, \h11173), I(\h11180, \h11181),
    I(\h111b6, \h111be), I(\h111ca, \h111cc), I(\h1122f, \h11231), I(\h11234, \h11234),
    I(\h11236, \h11237), I(\h112df, \h112df), I(\h112e3, \h112ea), I(\h11300, \h11301),
    I(\h1133c, \h1133c), I(\h11340, \h11340), I(\h11366, \h1136c), I(\h11370, \h11374),
    I(\h114b3, \h114b8), I(\h114ba, \h114ba), I(\h114bf, \h114c0), I(\h114c2, \h114c3),
    I(\h115b2, \h115b5), I(\h115bc, \h115bd), I(\h115bf, \h115c0), I(\h115dc, \h115dd),
    I(\h11633, \h1163a), I(\h1163d, \h1163d), I(\h1163f, \h11640), I(\h116ab, \h116ab),
    I(\h116ad, \h116ad), I(\h116b0, \h116b5), I(\h116b7, \h116b7), I(\h1171d, \h1171f),
    I(\h11722, \h11725), I(\h11727, \h1172b), I(\h16af0, \h16af4), I(\h16b30, \h16b36),
    I(\h16f8f, \h16f92), I(\h1bc9d, \h1bc9e), I(\h1bca0, \h1bca3), I(\h1d167, \h1d169),
    I(\h1d173, \h1d182), I(\h1d185, \h1d18b), I(\h1d1aa, \h1d1ad), I(\h1d242, \h1d244),
    I(\h1da00, \h1da36), I(\h1da3b, \h1da6c), I(\h1da75, \h1da75), I(\h1da84, \h1da84),
    I(\h1da9b, \h1da9f), I(\h1daa1, \h1daaf), I(\h1e8d0, \h1e8d6), I(\he0001, \he0001),
    I(\he0020, \he007f), I(\he0100, \he01ef)
>>

\* the wide table with the interval of U+3099 begun at the end of its predecessor
wide_touching == <<
    I(\h1100, \h115f), I(\h2329, \h232a), I(\h2e80, \h2e99), I(\h2e9b, \h2ef3),
    I(\h2f00, \h2fd5), I(\h2ff0, \h2ffb), I(\h3000, \h303e), I(\h3041, \h3096),
    I(\h3096, \h30ff), I(\h3105, \h312d), I(\h3131, \h318e), I(\h3190, \h31ba),
    I(\h31c0, \h31e3), I(\h31f0, \h321e), I(\h3220, \h3247), I(\h3250, \h32fe),
    I(\h3300, \h4dbf), I(\h4e00, \ha48c), I(\ha490, \ha4c6), I(\ha960, \ha97c),
    I(\hac00, \hd7a3), I(\hf900, \hfaff), I(\hfe10, \hfe19), I(\hfe30, \hfe52),
    I(\hfe54, \hfe66), I(\hfe68, \hfe6b), I(\hff01, \hff60), I(\hffe0, \hffe6),
    I(\h1b000, \h1b001), I(\h1f200, \h1f202), I(\h1f210, \h1f23a), I(\h1f240, \h1f248),
    I(\h1f250, \h1f251), I(\h20000, \h2fffd), I(\h30000, \h3fffd)
>>

\* sorted list of non-overlapping intervals of wide characters
wide == <<
    I(\h1100, \h115f), I(\h2329, \h232a), I(\h2e80, \h2e99), I(\h2e9b, \h2ef3),
    I(\h2f00, \h2fd5), I(\h2ff0, \h2ffb), I(\h3000, \h303e), I(\h3041, \h3096),
    I(\h3099, \h30ff), I(\h3105, \h312d), I(\h3131, \h318e), I(\h3190, \h31ba),
    I(\h31c0, \h31e3), I(\h31f0, \h321e), I(\h3220, \h3247), I(\h3250, \h32fe),
    I(\h3300, \h4dbf), I(\h4e00, \ha48c), I(\ha490, \ha4c6), I(\ha960, \ha97c),
    I(\hac00, \hd7a3), I(\hf900, \hfaff), I(\hfe10, \hfe19), I(\hfe30, \hfe52),
    I(\hfe54, \hfe66), I(\hfe68, \hfe6b), I(\hff01, \hff60), I(\hffe0, \hffe6),
    I(\h1b000, \h1b001), I(\h1f200, \h1f202), I(\h1f210, \h1f23a), I(\h1f240, \h1f248),
    I(\h1f250, \h1f251), I(\h20000, \h2fffd), I(\h30000, \h3fffd)
>>

\* the number of intervals handed over as the index of the last one
LastIndex_count(table) == Len(table)

\* sizeof(table) / sizeof(struct interval) - 1, the max argument of bisearch
LastIndex(table) == Len(table) - 1

(***************************************************************************)
(* bisearch: auxiliary function for binary search in interval table.  The  *)
(* activation is the record [min, max, pc, ret]; pc = "loop" while the     *)
(* while loop is still to be evaluated and "return" once a return          *)
(* statement has been executed with value ret.  An access table[k] with k  *)
(* outside the array is undefined: pc = "fault" stands for whatever        *)
(* follows it.                                                             *)
(***************************************************************************)
\* k is an index of the array
InArray(table, k) == 0 <= k /\ k < Len(table)

\* the entry without the rejection of code points above the last interval
bisearch_entry_no_upper(ucs, table, max) ==
    IF ~InArray(table, 0) \/ ~InArray(table, max)
    THEN [min |-> 0, max |-> max, pc |-> "fault", ret |-> 0]
    ELSE IF Lt(ucs, At(table, 0).first)
    THEN [min |-> 0, max |-> max, pc |-> "return", ret |-> 0]
    ELSE [min |-> 0, max |-> max, pc |-> "loop", ret |-> 0]

\* the entry with the last code point of the table rejected as well
bisearch_entry_ge_last(ucs, table, max) ==
    IF ~InArray(table, 0) \/ ~InArray(table, max)
    THEN [min |-> 0, max |-> max, pc |-> "fault", ret |-> 0]
    ELSE IF Lt(ucs, At(table, 0).first) \/ Ge(ucs, At(table, max).last)
    THEN [min |-> 0, max |-> max, pc |-> "return", ret |-> 0]
    ELSE [min |-> 0, max |-> max, pc |-> "loop", ret |-> 0]

bisearch_entry(ucs, table, max) ==
    IF ~InArray(table, 0) \/ ~InArray(table, max)
    THEN [min |-> 0, max |-> max, pc |-> "fault", ret |-> 0]
    ELSE IF Lt(ucs, At(table, 0).first) \/ Gt(ucs, At(table, max).last)
    THEN [min |-> 0, max |-> max, pc |-> "return", ret |-> 0]
    ELSE [min |-> 0, max |-> max, pc |-> "loop", ret |-> 0]

\* the same iteration with the end of the interval taken as exclusive
bisearch_iter_excl_last(ucs, table, b) ==
    IF b.max >= b.min
    THEN LET mid == (b.min + b.max) \div 2
         IN  IF ~InArray(table, mid)
             THEN [b EXCEPT !.pc = "fault"]
             ELSE IF Ge(ucs, At(table, mid).last)
             THEN [b EXCEPT !.min = mid + 1]
             ELSE IF Lt(ucs, At(table, mid).first)
                  THEN [b EXCEPT !.max = mid - 1]
                  ELSE [b EXCEPT !.pc = "return", !.ret = 1]
    ELSE [b EXCEPT !.pc = "return", !.ret = 0]

\* the same iteration with the lower half kept together with its midpoint
bisearch_iter_min_mid(ucs, table, b) ==
    IF b.max >= b.min
    THEN LET mid == (b.min + b.max) \div 2
         IN  IF ~InArray(table, mid)
             THEN [b EXCEPT !.pc = "fault"]
             ELSE IF Gt(ucs, At(table, mid).last)
             THEN [b EXCEPT !.min = mid]
             ELSE IF Lt(ucs, At(table, mid).first)
                  THEN [b EXCEPT !.max = mid - 1]
                  ELSE [b EXCEPT !.pc = "return", !.ret = 1]
    ELSE [b EXCEPT !.pc = "return", !.ret = 0]

\* one evaluation of the while condition and, when it holds, of the body
bisearch_iter(ucs, table, b) ==
    IF b.max >= b.min
    THEN LET mid == (b.min + b.max) \div 2
         IN  IF ~InArray(table, mid)
             THEN [b EXCEPT !.pc = "fault"]
             ELSE IF Gt(ucs, At(table, mid).last)
             THEN [b EXCEPT !.min = mid + 1]
             ELSE IF Lt(ucs, At(table, mid).first)
                  THEN [b EXCEPT !.max = mid - 1]
                  ELSE [b EXCEPT !.pc = "return", !.ret = 1]
    ELSE [b EXCEPT !.pc = "return", !.ret = 0]

RECURSIVE bisearch_run(_, _, _)
bisearch_run(ucs, table, b) ==
    IF b.pc # "loop"
    THEN b.ret
    ELSE bisearch_run(ucs, table, bisearch_iter(ucs, table, b))

bisearch(ucs, table, max) ==
    bisearch_run(ucs, table, bisearch_entry(ucs, table, max))

(***************************************************************************)
(* mk_wcwidth.  The body yields the returned width together with the list  *)
(* of tables it has handed to bisearch on the way to its return statement. *)
(***************************************************************************)
\* the fast test with DEL left out of the control characters
fast_test_no_del(ucs) ==
    IF ucs = U(0)
    THEN 0
    ELSE IF Lt(ucs, U(32)) \/ (Ge(ucs, U(\h80)) /\ Lt(ucs, U(\ha0)))
         THEN -1
         ELSE 1

\* Fast test for 8-bit control characters and many ISO8859 characters
fast_test(ucs) ==
    IF ucs = U(0)
    THEN 0
    ELSE IF Lt(ucs, U(32)) \/ (Ge(ucs, U(\h7f)) /\ Lt(ucs, U(\ha0)))
         THEN -1
         ELSE 1

\* the Hangul Jamo test without its first code point
hangul_jamo_open(ucs) == Gt(ucs, U(\h1160)) /\ Le(ucs, U(\h11FF))

\* Hangul Jamo medial vowels and final consonants (U+1160-U+11FF)
hangul_jamo(ucs) == Ge(ucs, U(\h1160)) /\ Le(ucs, U(\h11FF))

\* the body without the fast test in front of the table searches
mk_wcwidth_body_no_fast(ucs) ==
    IF ucs = U(0) \/ Lt(ucs, U(32)) \/ (Ge(ucs, U(\h7f)) /\ Lt(ucs, U(\ha0)))
    THEN [ret |-> fast_test(ucs), searched |-> << >>]
    ELSE IF bisearch(ucs, combining, LastIndex(combining)) = 1
    THEN [ret |-> 0, searched |-> <<"combining">>]
    ELSE IF Lt(ucs, U(\h1100))
    THEN [ret |-> 1, searched |-> <<"combining">>]
    ELSE IF hangul_jamo(ucs)
    THEN [ret |-> 0, searched |-> <<"combining">>]
    ELSE [ret |-> 1 + bisearch(ucs, wide, LastIndex(wide)),
          searched |-> <<"combining", "wide">>]

\* the body with the wide result added to 2 instead of 1
mk_wcwidth_body_wide3(ucs) ==
    IF Lt(ucs, U(\h0300))
    THEN [ret |-> fast_test(ucs), searched |-> << >>]
    ELSE IF bisearch(ucs, combining, LastIndex(combining)) = 1
    THEN [ret |-> 0, searched |-> <<"combining">>]
    ELSE IF Lt(ucs, U(\h1100))
    THEN [ret |-> 1, searched |-> <<"combining">>]
    ELSE IF hangul_jamo(ucs)
    THEN [ret |-> 0, searched |-> <<"combining">>]
    ELSE [ret |-> 2 + bisearch(ucs, wide, LastIndex(wide)),
          searched |-> <<"combining", "wide">>]

\* the body with U+1100 itself counted among the code points below it
mk_wcwidth_body_le_1100(ucs) ==
    IF Lt(ucs, U(\h0300))
    THEN [ret |-> fast_test(ucs), searched |-> << >>]
    ELSE IF bisearch(ucs, combining, LastIndex(combining)) = 1
    THEN [ret |-> 0, searched |-> <<"combining">>]
    ELSE IF Le(ucs, U(\h1100))
    THEN [ret |-> 1, searched |-> <<"combining">>]
    ELSE IF hangul_jamo(ucs)
    THEN [ret |-> 0, searched |-> <<"combining">>]
    ELSE [ret |-> 1 + bisearch(ucs, wide, LastIndex(wide)),
          searched |-> <<"combining", "wide">>]

mk_wcwidth_body(ucs) ==
    IF Lt(ucs, U(\h0300))
    THEN [ret |-> fast_test(ucs), searched |-> << >>]
    ELSE IF bisearch(ucs, combining, LastIndex(combining)) = 1
    THEN [ret |-> 0, searched |-> <<"combining">>]
    ELSE IF Lt(ucs, U(\h1100))
    THEN [ret |-> 1, searched |-> <<"combining">>]
    ELSE IF hangul_jamo(ucs)
    THEN [ret |-> 0, searched |-> <<"combining">>]
    ELSE [ret |-> 1 + bisearch(ucs, wide, LastIndex(wide)),
          searched |-> <<"combining", "wide">>]

mk_wcwidth(ucs) == mk_wcwidth_body(ucs).ret

\* the variant without the exception for U+20A9
mk_wcwidth_cjk_no_won(ucs) ==
    LET w == mk_wcwidth(ucs)
    IN  IF w = 1 /\ Ge(ucs, U(\h00A1)) /\ Lt(ucs, U(\hFF61))
        THEN 2
        ELSE w

mk_wcwidth_cjk(ucs) ==
    LET w == mk_wcwidth(ucs)
    IN  IF w = 1 /\ Ge(ucs, U(\h00A1)) /\ Lt(ucs, U(\hFF61)) /\ ucs # U(\h20A9)
        THEN 2
        ELSE w

(***************************************************************************)
(* Bounds of the checked inputs.                                           *)
(***************************************************************************)
\* longest code point array handed to mk_wcswidth / mk_wcswidth_cjk
MaxLen == 3

\* largest value of the argument n
MaxN == 5

\* number of evenly spread code points added to the sampled inputs
SampleCount == 300

Range(f) == {f[k] : k \in DOMAIN f}

\* both ends of every interval of a table, their neighbours and the middle
TableEdges(table) ==
    UNION {{ToInt(t.first) - 1, ToInt(t.first), ToInt(t.last),
            ToInt(t.last) + 1, (ToInt(t.first) + ToInt(t.last)) \div 2}
           : t \in Range(table)}

\* every code point inside an interval of a table
Members(table) ==
    UNION {ToInt(t.first) .. ToInt(t.last) : t \in Range(table)}

\* the numeric boundaries written into the functions, and their neighbours
Landmarks ==
    (0 .. \h0300) \cup (\h10FE .. \h1201)
      \cup {\h20A8, \h20A9, \h20AA, \hFF5F, \hFF60, \hFF61, \hFF62,
            \h10FFFF, \h110000, \h7FFFFFFF}

\* values with the top bit set or with more than 16 significant bits
HighValues ==
    {U32(1, 7), U32(1, \h00AD), U32(1, \h1160), U32(\h7FFF, \hFFFF),
     U32(\h8000, 0), U32(\h8000, \h0007), U32(\h8000, \h00AD),
     U32(\hFFFF, \h0300), U32(\hFFFF, \h4E00), UINT_MAX,
     U32(\h0011, \h4E00), U32(\h0100, \h1160), U32(\h20A9, \h20A9),
     U32(\hFFFF, \h20A9), U32(\hFFFF, \h0007)}

\* the code points mk_wcwidth and mk_wcwidth_cjk are called with
CodePoints ==
    {U(k) : k \in TableEdges(combining) \cup TableEdges(wide) \cup Landmarks
                    \cup Members(combining)
                    \cup {j * 3671 : j \in 0 .. SampleCount}}
      \cup HighValues

\* the elements of the arrays: terminator, control, narrow, promoted by
\* the cjk variant, zero width, wide
Elements == {U(0), U(\h07), U(\h41), U(\hA1), U(\h0300), U(\h4E2D)}

Arrays == UNION {[1 .. len -> Elements] : len \in 0 .. MaxLen}

HasTerminator(a) == \E k \in 1 .. Len(a) : a[k] = U(0)

(***************************************************************************)
(* State: the function called and its arguments (op, ucs, s, limit), the   *)
(* locals of the string functions (pwcs as an offset into s, n, cur for    *)
(* the value of *pwcs, w, width), the control point and the result.        *)
(***************************************************************************)
VARIABLES op, ucs, s, limit, pwcs, n, cur, w, width, searched, pc, result

\* the variables of the single call above
callvars == <<op, ucs, s, limit, pwcs, n, cur, w, width, searched, pc, result>>

(***************************************************************************)
(* Calls made side by side: tables is the static storage of the program,   *)
(* the two const arrays under their names (or the one array handed to a    *)
(* bisearch called on its own), and th gives every thread the frame of its *)
(* call: arguments, locals, control point and, while it searches, the      *)
(* activation b of bisearch on the array named tab.                        *)
(***************************************************************************)
VARIABLES th, tables

vars == <<op, ucs, s, limit, pwcs, n, cur, w, width, searched, pc, result,
          th, tables>>

\* static const struct interval combining[], wide[]
StaticTables == [combining |-> combining, wide |-> wide]

\* no call is made side by side with the single call
NoThreads == << >>

\* size_t: the value of n-- when n is 0
SIZE_MAX == 2147483647

\* int: its largest and its smallest value
INT_MAX == 2147483647

INT_MIN == -INT_MAX - 1

\* width += w, for w >= 0, leaves the range of int.  The behaviour is then
\* undefined: the build either wraps the sum around (AddWrapped, which is
\* width + w - 2^32) or traps.
AddOverflows(a, b) == a > INT_MAX - b

AddWrapped(a, b) == ((a - INT_MAX) + (b - 1)) + INT_MIN

\* *pwcs; an object past the end of the array holds any value
Deref(a, k) == IF k < Len(a) THEN {a[k + 1]} ELSE Elements

Init ==
    /\ op \in {"mk_wcwidth", "mk_wcwidth_cjk", "mk_wcswidth", "mk_wcswidth_cjk"}
    /\ IF op \in {"mk_wcwidth", "mk_wcwidth_cjk"}
       THEN ucs \in CodePoints /\ s = << >> /\ limit = 0
       ELSE /\ ucs = U(0)
            /\ s \in Arrays
            /\ limit \in 0 .. MaxN
            \* the caller passes a terminated string or at least n elements
            /\ HasTerminator(s) \/ limit <= Len(s)
    /\ pwcs = 0
    /\ n = limit
    /\ cur = U(0)
    /\ w = 0
    /\ width = 0
    /\ searched = << >>
    /\ pc = "call"
    /\ result = 0
    /\ th = NoThreads
    /\ tables = StaticTables

call_mk_wcwidth ==
    /\ pc = "call"
    /\ op = "mk_wcwidth"
    /\ result' = mk_wcwidth_body(ucs).ret
    /\ searched' = mk_wcwidth_body(ucs).searched
    /\ pc' = "done"
    /\ UNCHANGED <<op, ucs, s, limit, pwcs, n, cur, w, width>>
    /\ UNCHANGED <<th, tables>>

call_mk_wcwidth_cjk ==
    /\ pc = "call"
    /\ op = "mk_wcwidth_cjk"
    /\ result' = mk_wcwidth_cjk(ucs)
    /\ searched' = mk_wcwidth_body(ucs).searched
    /\ pc' = "done"
    /\ UNCHANGED <<op, ucs, s, limit, pwcs, n, cur, w, width>>
    /\ UNCHANGED <<th, tables>>

\* int w, width = 0;
mk_wcswidth_entry ==
    /\ pc = "call"
    /\ op = "mk_wcswidth"
    /\ width' = 0
    /\ pc' = "for_cond"
    /\ UNCHANGED <<op, ucs, s, limit, pwcs, n, cur, w, searched, result>>
    /\ UNCHANGED <<th, tables>>

\* *pwcs && n-- > 0
mk_wcswidth_cond ==
    /\ pc = "for_cond"
    /\ op = "mk_wcswidth"
    /\ \E c \in Deref(s, pwcs) :
          /\ cur' = c
          /\ IF c = U(0)
             THEN n' = n /\ pc' = "return"
             ELSE /\ n' = IF n = 0 THEN SIZE_MAX ELSE n - 1
                  /\ pc' = IF n > 0 THEN "for_body" ELSE "return"
    /\ UNCHANGED <<op, ucs, s, limit, pwcs, w, width, searched, result>>
    /\ UNCHANGED <<th, tables>>

\* the loop body returning the widths added so far on a negative width
mk_wcswidth_body_partial ==
    /\ pc = "for_body"
    /\ op = "mk_wcswidth"
    /\ w' = mk_wcwidth(cur)
    /\ IF w' < 0
       THEN /\ result' = width
            /\ pc' = "done"
            /\ UNCHANGED <<width, pwcs>>
       ELSE /\ UNCHANGED result
            /\ \/ /\ ~AddOverflows(width, w')
                  /\ width' = width + w'
                  /\ pwcs' = pwcs + 1
                  /\ pc' = "for_cond"
               \/ /\ AddOverflows(width, w')
                  /\ width' = AddWrapped(width, w')
                  /\ pwcs' = pwcs + 1
                  /\ pc' = "for_cond"
               \/ /\ AddOverflows(width, w')
                  /\ pc' = "trap"
                  /\ UNCHANGED <<width, pwcs>>
    /\ UNCHANGED <<op, ucs, s, limit, n, cur, searched>>
    /\ UNCHANGED <<th, tables>>

\* if ((w = mk_wcwidth(*pwcs)) < 0) return -1; else width += w;  pwcs++
mk_wcswidth_body ==
    /\ pc = "for_body"
    /\ op = "mk_wcswidth"
    /\ w' = mk_wcwidth(cur)
    /\ IF w' < 0
       THEN /\ result' = -1
            /\ pc' = "done"
            /\ UNCHANGED <<width, pwcs>>
       ELSE /\ UNCHANGED result
            /\ \/ /\ ~AddOverflows(width, w')
                  /\ width' = width + w'
                  /\ pwcs' = pwcs + 1
                  /\ pc' = "for_cond"
               \/ /\ AddOverflows(width, w')
                  /\ width' = AddWrapped(width, w')
                  /\ pwcs' = pwcs + 1
                  /\ pc' = "for_cond"
               \/ /\ AddOverflows(width, w')
                  /\ pc' = "trap"
                  /\ UNCHANGED <<width, pwcs>>
    /\ UNCHANGED <<op, ucs, s, limit, n, cur, searched>>
    /\ UNCHANGED <<th, tables>>

\* return width;
mk_wcswidth_return ==
    /\ pc = "return"
    /\ op = "mk_wcswidth"
    /\ result' = width
    /\ pc' = "done"
    /\ UNCHANGED <<op, ucs, s, limit, pwcs, n, cur, w, width, searched>>
    /\ UNCHANGED <<th, tables>>

\* int w, width = 0;
mk_wcswidth_cjk_entry ==
    /\ pc = "call"
    /\ op = "mk_wcswidth_cjk"
    /\ width' = 0
    /\ pc' = "for_cond"
    /\ UNCHANGED <<op, ucs, s, limit, pwcs, n, cur, w, searched, result>>
    /\ UNCHANGED <<th, tables>>

\* *pwcs && n-- > 0
mk_wcswidth_cjk_cond ==
    /\ pc = "for_cond"
    /\ op = "mk_wcswidth_cjk"
    /\ \E c \in Deref(s, pwcs) :
          /\ cur' = c
          /\ IF c = U(0)
             THEN n' = n /\ pc' = "return"
             ELSE /\ n' = IF n = 0 THEN SIZE_MAX ELSE n - 1
                  /\ pc' = IF n > 0 THEN "for_body" ELSE "return"
    /\ UNCHANGED <<op, ucs, s, limit, pwcs, w, width, searched, result>>
    /\ UNCHANGED <<th, tables>>

\* the loop body calling mk_wcwidth in place of mk_wcwidth_cjk
mk_wcswidth_cjk_body_plain ==
    /\ pc = "for_body"
    /\ op = "mk_wcswidth_cjk"
    /\ w' = mk_wcwidth(cur)
    /\ IF w' < 0
       THEN /\ result' = -1
            /\ pc' = "done"
            /\ UNCHANGED <<width, pwcs>>
       ELSE /\ UNCHANGED result
            /\ \/ /\ ~AddOverflows(width, w')
                  /\ width' = width + w'
                  /\ pwcs' = pwcs + 1
                  /\ pc' = "for_cond"
               \/ /\ AddOverflows(width, w')
                  /\ width' = AddWrapped(width, w')
                  /\ pwcs' = pwcs + 1
                  /\ pc' = "for_cond"
               \/ /\ AddOverflows(width, w')
                  /\ pc' = "trap"
                  /\ UNCHANGED <<width, pwcs>>
    /\ UNCHANGED <<op, ucs, s, limit, n, cur, searched>>
    /\ UNCHANGED <<th, tables>>

\* if ((w = mk_wcwidth_cjk(*pwcs)) < 0) return -1; else width += w;  pwcs++
mk_wcswidth_cjk_body ==
    /\ pc = "for_body"
    /\ op = "mk_wcswidth_cjk"
    /\ w' = mk_wcwidth_cjk(cur)
    /\ IF w' < 0
       THEN /\ result' = -1
            /\ pc' = "done"
            /\ UNCHANGED <<width, pwcs>>
       ELSE /\ UNCHANGED result
            /\ \/ /\ ~AddOverflows(width, w')
                  /\ width' = width + w'
                  /\ pwcs' = pwcs + 1
                  /\ pc' = "for_cond"
               \/ /\ AddOverflows(width, w')
                  /\ width' = AddWrapped(width, w')
                  /\ pwcs' = pwcs + 1
                  /\ pc' = "for_cond"
               \/ /\ AddOverflows(width, w')
                  /\ pc' = "trap"
                  /\ UNCHANGED <<width, pwcs>>
    /\ UNCHANGED <<op, ucs, s, limit, n, cur, searched>>
    /\ UNCHANGED <<th, tables>>

\* return width;
mk_wcswidth_cjk_return ==
    /\ pc = "return"
    /\ op = "mk_wcswidth_cjk"
    /\ result' = width
    /\ pc' = "done"
    /\ UNCHANGED <<op, ucs, s, limit, pwcs, n, cur, w, width, searched>>
    /\ UNCHANGED <<th, tables>>

Next ==
    \/ call_mk_wcwidth
    \/ call_mk_wcwidth_cjk
    \/ mk_wcswidth_entry
    \/ mk_wcswidth_cond
    \/ mk_wcswidth_body
    \/ mk_wcswidth_return
    \/ mk_wcswidth_cjk_entry
    \/ mk_wcswidth_cjk_cond
    \/ mk_wcswidth_cjk_body
    \/ mk_wcswidth_cjk_return

Spec == Init /\ [][Next]_vars

(***************************************************************************)
(* mk_wcswidth on an array that begins with a long run of wide characters, *)
(* taken up where the loop has passed the run: s holds the elements from   *)
(* the cursor on, limit what is left of n, and width is twice the length   *)
(* of the run.  A run of 2^30 - 1 elements brings width to INT_MAX - 1.    *)
(***************************************************************************)
LongRuns == {INT_MAX \div 2 - 1, INT_MAX \div 2}

InitLong ==
    /\ op = "mk_wcswidth"
    /\ ucs = U(0)
    /\ s \in Arrays
    /\ limit \in 0 .. MaxN
    /\ HasTerminator(s) \/ limit <= Len(s)
    /\ pwcs = 0
    /\ n = limit
    /\ cur = U(\h4E2D)
    /\ w = 2
    /\ width \in {2 * run : run \in LongRuns}
    /\ searched = << >>
    /\ pc = "for_cond"
    /\ result = 0
    /\ th = NoThreads
    /\ tables = StaticTables

NextLong ==
    \/ mk_wcswidth_cond
    \/ mk_wcswidth_body
    \/ mk_wcswidth_return

SpecLong == InitLong /\ [][NextLong]_vars

(***************************************************************************)
(* The functions step by step, one step for each evaluation of the while   *)
(* condition of bisearch, as the thread t executes them.                   *)
(***************************************************************************)
\* no activation of bisearch
NoSearch == [min |-> 0, max |-> 0, pc |-> "return", ret |-> 0]

\* the frame of a call of function f; probes counts the table[mid] inspected
Frame(f, c, a, lim, array) ==
    [op |-> f, ucs |-> c, s |-> a, limit |-> lim, pwcs |-> 0, n |-> lim,
     cur |-> U(0), w |-> 0, width |-> 0, pc |-> "call", tab |-> array,
     b |-> NoSearch, probes |-> 0, ret |-> 0, result |-> 0]

\* if (w == 1 && ucs >= 0x00A1 && ucs < 0xFF61 && ucs != 0x20A9) return 2
cjk_promote(c, wd) ==
    IF wd = 1 /\ Ge(c, U(\h00A1)) /\ Lt(c, U(\hFF61)) /\ c # U(\h20A9)
    THEN 2
    ELSE wd

\* the single call stays as it is
Aside == UNCHANGED callvars

\* bisearch(ucs, table, max) called on its own with max the last index
t_call_bisearch(t) ==
    /\ th[t].pc = "call"
    /\ th[t].op = "bisearch"
    /\ th' = [th EXCEPT ![t].b = bisearch_entry(th[t].ucs, tables[th[t].tab],
                                               LastIndex(tables[th[t].tab])),
                        ![t].pc = "search"]
    /\ UNCHANGED tables
    /\ Aside

t_call_wcwidth(t) ==
    /\ th[t].pc = "call"
    /\ th[t].op \in {"mk_wcwidth", "mk_wcwidth_cjk"}
    /\ th' = [th EXCEPT ![t].pc = "wc"]
    /\ UNCHANGED tables
    /\ Aside

\* int w, width = 0;
t_call_wcswidth(t) ==
    /\ th[t].pc = "call"
    /\ th[t].op \in {"mk_wcswidth", "mk_wcswidth_cjk"}
    /\ th' = [th EXCEPT ![t].width = 0, ![t].pc = "for_cond"]
    /\ UNCHANGED tables
    /\ Aside

\* *pwcs && n-- > 0
t_for_cond(t) ==
    /\ th[t].pc = "for_cond"
    /\ \E c \in Deref(th[t].s, th[t].pwcs) :
          th' = [th EXCEPT
                   ![t].cur = c,
                   ![t].n = IF c = U(0) THEN @
                            ELSE IF @ = 0 THEN SIZE_MAX ELSE @ - 1,
                   ![t].pc = IF c # U(0) /\ th[t].n > 0
                             THEN "for_body" ELSE "return"]
    /\ UNCHANGED tables
    /\ Aside

\* the call mk_wcwidth(*pwcs), directly or from mk_wcwidth_cjk(*pwcs)
t_for_body(t) ==
    /\ th[t].pc = "for_body"
    /\ th' = [th EXCEPT ![t].ucs = th[t].cur, ![t].pc = "wc"]
    /\ UNCHANGED tables
    /\ Aside

\* mk_wcwidth up to its first call of bisearch
t_wc_fast(t) ==
    /\ th[t].pc = "wc"
    /\ th' = IF Lt(th[t].ucs, U(\h0300))
             THEN [th EXCEPT ![t].ret = fast_test(th[t].ucs),
                             ![t].pc = "wc_ret"]
             ELSE [th EXCEPT
                     ![t].tab = "combining",
                     ![t].b = bisearch_entry(th[t].ucs, tables.combining,
                                             LastIndex(tables.combining)),
                     ![t].pc = "search"]
    /\ UNCHANGED tables
    /\ Aside

\* the iteration that keeps the interval found at the head of the table
t_search_iter_move_to_front(t) ==
    /\ th[t].pc = "search"
    /\ th[t].b.pc = "loop"
    /\ LET nb == bisearch_iter(th[t].ucs, tables[th[t].tab], th[t].b)
           mid == (th[t].b.min + th[t].b.max) \div 2
       IN  /\ th' = [th EXCEPT
                       ![t].b = nb,
                       ![t].probes = IF th[t].b.max >= th[t].b.min
                                     THEN @ + 1 ELSE @]
           /\ tables' = IF nb.pc = "return" /\ nb.ret = 1
                        THEN [tables EXCEPT
                                ![th[t].tab][1] = tables[th[t].tab][mid + 1],
                                ![th[t].tab][mid + 1] = tables[th[t].tab][1]]
                        ELSE tables
    /\ Aside

\* while (max >= min) { mid = (min + max) / 2; ... }
t_search_iter(t) ==
    /\ th[t].pc = "search"
    /\ th[t].b.pc = "loop"
    /\ th' = [th EXCEPT
                ![t].b = bisearch_iter(th[t].ucs, tables[th[t].tab], @),
                ![t].probes = IF th[t].b.max >= th[t].b.min
                              THEN @ + 1 ELSE @]
    /\ UNCHANGED tables
    /\ Aside

\* bisearch called on its own returns
t_bisearch_return(t) ==
    /\ th[t].pc = "search"
    /\ th[t].b.pc = "return"
    /\ th[t].op = "bisearch"
    /\ th' = [th EXCEPT ![t].result = th[t].b.ret, ![t].pc = "done"]
    /\ UNCHANGED tables
    /\ Aside

\* mk_wcwidth from the return of bisearch(ucs, combining, ...) to its own
\* return or to its call of bisearch(ucs, wide, ...)
t_combining_return(t) ==
    /\ th[t].pc = "search"
    /\ th[t].b.pc = "return"
    /\ th[t].op # "bisearch"
    /\ th[t].tab = "combining"
    /\ th' = IF th[t].b.ret = 1
             THEN [th EXCEPT ![t].ret = 0, ![t].pc = "wc_ret"]
             ELSE IF Lt(th[t].ucs, U(\h1100))
             THEN [th EXCEPT ![t].ret = 1, ![t].pc = "wc_ret"]
             ELSE IF hangul_jamo(th[t].ucs)
             THEN [th EXCEPT ![t].ret = 0, ![t].pc = "wc_ret"]
             ELSE [th EXCEPT
                     ![t].tab = "wide",
                     ![t].b = bisearch_entry(th[t].ucs, tables.wide,
                                             LastIndex(tables.wide))]
    /\ UNCHANGED tables
    /\ Aside

\* return 1 + (bisearch(ucs, wide, ...));
t_wide_return(t) ==
    /\ th[t].pc = "search"
    /\ th[t].b.pc = "return"
    /\ th[t].op # "bisearch"
    /\ th[t].tab = "wide"
    /\ th' = [th EXCEPT ![t].ret = 1 + th[t].b.ret, ![t].pc = "wc_ret"]
    /\ UNCHANGED tables
    /\ Aside

\* mk_wcwidth has returned ret: the caller's use of the value
t_wc_return(t) ==
    /\ th[t].pc = "wc_ret"
    /\ LET v == IF th[t].op \in {"mk_wcwidth_cjk", "mk_wcswidth_cjk"}
                THEN cjk_promote(th[t].ucs, th[t].ret)
                ELSE th[t].ret
       IN  IF th[t].op \in {"mk_wcwidth", "mk_wcwidth_cjk"}
           THEN th' = [th EXCEPT ![t].result = v, ![t].pc = "done"]
           ELSE IF v < 0
           THEN th' = [th EXCEPT ![t].w = v, ![t].result = -1,
                                 ![t].pc = "done"]
           ELSE \/ /\ ~AddOverflows(th[t].width, v)
                   /\ th' = [th EXCEPT ![t].w = v, ![t].width = @ + v,
                                       ![t].pwcs = @ + 1,
                                       ![t].pc = "for_cond"]
                \/ /\ AddOverflows(th[t].width, v)
                   /\ th' = [th EXCEPT
                               ![t].w = v,
                               ![t].width = AddWrapped(@, v),
                               ![t].pwcs = @ + 1,
                               ![t].pc = "for_cond"]
                \/ /\ AddOverflows(th[t].width, v)
                   /\ th' = [th EXCEPT ![t].w = v, ![t].pc = "trap"]
    /\ UNCHANGED tables
    /\ Aside

\* return width;
t_return(t) ==
    /\ th[t].pc = "return"
    /\ th' = [th EXCEPT ![t].result = th[t].width, ![t].pc = "done"]
    /\ UNCHANGED tables
    /\ Aside

\* no single call is in progress
Idle ==
    /\ op = "none"
    /\ ucs = U(0)
    /\ s = << >>
    /\ limit = 0
    /\ pwcs = 0
    /\ n = 0
    /\ cur = U(0)
    /\ w = 0
    /\ width = 0
    /\ searched = << >>
    /\ pc = "idle"
    /\ result = 0

(***************************************************************************)
(* bisearch called on its own, on the two tables of mk_wcwidth and on      *)
(* every small table that is non-empty and strictly ascending.             *)
(***************************************************************************)
\* most intervals in a small table
MaxTab == 3

\* largest code point inside a small table
MaxCode == 6

\* first <= last in every entry, and every entry ends before the next begins
Ascending(table) ==
    /\ Len(table) >= 1
    /\ \A k \in 1 .. Len(table) : Le(table[k].first, table[k].last)
    /\ \A k \in 1 .. Len(table) - 1 : Lt(table[k].last, table[k + 1].first)

SmallIntervals == {I(f, l) : f \in 0 .. MaxCode, l \in 0 .. MaxCode}

SmallTables ==
    UNION {{t \in [1 .. len -> {i \in SmallIntervals : Le(i.first, i.last)}] :
              Ascending(t)} : len \in 1 .. MaxTab}

\* a table and a code point to search it for
SearchCases ==
    {<<t, U(c)>> : t \in SmallTables, c \in 0 .. MaxCode + 1}
      \cup {<<t, c>> : t \in {combining, wide},
                       c \in {U(k) : k \in {0} \cup TableEdges(combining)
                                             \cup TableEdges(wide)}
                               \cup HighValues}

InitBis ==
    /\ Idle
    /\ \E case \in SearchCases :
          /\ tables = [table |-> case[1]]
          /\ th = <<Frame("bisearch", case[2], << >>, 0, "table")>>

NextBis ==
    \/ \E t \in DOMAIN th : t_call_bisearch(t)
    \/ \E t \in DOMAIN th : t_search_iter(t)
    \/ \E t \in DOMAIN th : t_bisearch_return(t)

SpecBis == InitBis /\ [][NextBis]_vars

(***************************************************************************)
(* Two threads, each making one call of one of the four functions, their   *)
(* steps interleaved in every order.                                       *)
(***************************************************************************)
Threads == {1, 2}

\* narrow and promoted by the cjk variant, in the zero-width table, Hangul
\* Jamo, wide, in both tables
ConcPoints == {U(\hA1), U(\h0300), U(\h1160), U(\h4E2D), U(\h3099)}

ConcArrays ==
    {<<U(\h4E2D), U(\hA1), U(0)>>, <<U(\h0300), U(\h07), U(\h41)>>}

ConcCalls ==
    {Frame(f, c, << >>, 0, "combining") :
        f \in {"mk_wcwidth", "mk_wcwidth_cjk"}, c \in ConcPoints}
      \cup {Frame(f, U(0), a, Len(a), "combining") :
              f \in {"mk_wcswidth", "mk_wcswidth_cjk"}, a \in ConcArrays}

InitConc ==
    /\ Idle
    /\ tables = StaticTables
    /\ th \in [Threads -> ConcCalls]

NextConc ==
    \/ \E t \in Threads : t_call_wcwidth(t)
    \/ \E t \in Threads : t_call_wcswidth(t)
    \/ \E t \in Threads : t_for_cond(t)
    \/ \E t \in Threads : t_for_body(t)
    \/ \E t \in Threads : t_wc_fast(t)
    \/ \E t \in Threads : t_search_iter(t)
    \/ \E t \in Threads : t_combining_return(t)
    \/ \E t \in Threads : t_wide_return(t)
    \/ \E t \in Threads : t_wc_return(t)
    \/ \E t \in Threads : t_return(t)

SpecConc == InitConc /\ [][NextConc]_vars

(***************************************************************************)
(* Properties.                                                             *)
(***************************************************************************)
\* c lies in some interval of the table, by inspection of every interval
InTable(c, table) ==
    \E k \in 1 .. Len(table) : Le(table[k].first, c) /\ Le(c, table[k].last)

\* lo <= c <= hi for integer bounds lo and hi
Within(c, lo, hi) == Le(U(lo), c) /\ Le(c, U(hi))

ReturnedFrom(f) == op = f /\ pc = "done"

\* C1: for every 32-bit code point, a call of mk_wcwidth returns, and the
\* value it returns is one of -1, 0, 1, 2.
C1_WidthIsTotal ==
    op = "mk_wcwidth"
        => /\ pc \in {"call", "done"}
           /\ pc = "done" => result \in {-1, 0, 1, 2}

C1_Witness ==
    /\ ReturnedFrom("mk_wcwidth")
    /\ ucs = UINT_MAX
    /\ result = 1

\* C2 as stated: every code point inside an interval of the zero-width
\* table has width 0.
C2_EveryCombiningIsZero ==
    (ReturnedFrom("mk_wcwidth") /\ InTable(ucs, combining)) => result = 0

\* C2: every code point from U+0300 on that lies inside an interval of the
\* zero-width table has width 0; the one entry below U+0300, U+00AD, has
\* width 1.
C2_CombiningFrom0300IsZero ==
    (ReturnedFrom("mk_wcwidth") /\ InTable(ucs, combining))
        => result = IF Ge(ucs, U(\h0300)) THEN 0 ELSE 1

C2_Witness ==
    /\ ReturnedFrom("mk_wcwidth")
    /\ InTable(ucs, combining)
    /\ Ge(ucs, U(\h0300))
    /\ result = 0

\* C3 as stated: every code point inside an interval of the wide table has
\* width 2.
C3_EveryWideIsTwo ==
    (ReturnedFrom("mk_wcwidth") /\ InTable(ucs, wide)) => result = 2

\* C3: every code point inside an interval of the wide table and outside
\* the zero-width table has width 2; one inside both tables has width 0.
C3_WideNotCombiningIsTwo ==
    (ReturnedFrom("mk_wcwidth") /\ InTable(ucs, wide))
        => result = IF InTable(ucs, combining) THEN 0 ELSE 2

C3_Witness ==
    /\ ReturnedFrom("mk_wcwidth")
    /\ InTable(ucs, wide)
    /\ ~InTable(ucs, combining)
    /\ result = 2

\* C4: below U+0300 the width is decided without a table search: 0 for
\* U+0000, -1 for U+0001..U+001F and U+007F..U+009F, 1 for the rest, and so
\* 1 for U+00AD although the zero-width table holds it.
C4_FastTestBelow0300 ==
    (ReturnedFrom("mk_wcwidth") /\ Lt(ucs, U(\h0300)))
        => /\ searched = << >>
           /\ result = IF ucs = U(0) THEN 0
                       ELSE IF Within(ucs, 1, \h1F) \/ Within(ucs, \h7F, \h9F)
                            THEN -1
                            ELSE 1
           /\ ucs = U(\h00AD) => (result = 1 /\ InTable(ucs, combining))

C4_Witness ==
    /\ ReturnedFrom("mk_wcwidth")
    /\ ucs = U(\h00AD)
    /\ searched = << >>
    /\ result = 1

\* index of the first zero element of the array, its length when it has none
FirstZero(a) ==
    IF HasTerminator(a)
    THEN CHOOSE k \in 0 .. Len(a) - 1 :
            a[k + 1] = U(0) /\ \A j \in 1 .. k : a[j] # U(0)
    ELSE Len(a)

\* number of elements consumed: the smaller of n and the first zero's index
Consumed(a, lim) == IF lim < FirstZero(a) THEN lim ELSE FirstZero(a)

RECURSIVE Sum(_)
Sum(ws) == IF ws = << >> THEN 0 ELSE Head(ws) + Sum(Tail(ws))

\* the all-or-nothing result over a list of widths
AllOrNothing(ws) ==
    IF \E j \in 1 .. Len(ws) : ws[j] = -1 THEN -1 ELSE Sum(ws)

\* the widths mk_wcwidth gives the first k elements of the array
Widths(a, k) == [j \in 1 .. k |-> mk_wcwidth(a[j])]

\* the widths mk_wcwidth_cjk gives the first k elements of the array
WidthsCjk(a, k) == [j \in 1 .. k |-> mk_wcwidth_cjk(a[j])]

\* C5: mk_wcswidth returns -1 when one of the consumed elements s[0..k-1]
\* has width -1 and the sum of their widths otherwise, k being the smaller
\* of n and the index of the first zero; later elements do not matter.
C5_SumIsAllOrNothing ==
    ReturnedFrom("mk_wcswidth")
        => /\ result = AllOrNothing(Widths(s, Consumed(s, limit)))
           /\ (s = <<U(\h41), U(0)>> /\ limit = 5) => result = 1
           /\ limit = 0 => result = 0

C5_Witness ==
    /\ ReturnedFrom("mk_wcswidth")
    /\ width > 0
    /\ result = -1
    /\ Consumed(s, limit) < Len(s)

\* C6: mk_wcwidth_cjk returns 2 where mk_wcwidth returns 1 and the code
\* point is in [U+00A1, U+FF61) and is not U+20A9, and returns the value of
\* mk_wcwidth everywhere else.
C6_CjkPromotesNarrow ==
    ReturnedFrom("mk_wcwidth_cjk")
        => /\ result = IF /\ mk_wcwidth(ucs) = 1
                          /\ Within(ucs, \h00A1, \hFF60)
                          /\ ucs # U(\h20A9)
                       THEN 2
                       ELSE mk_wcwidth(ucs)
           /\ ~Within(ucs, \h00A1, \hFF60) => result = mk_wcwidth(ucs)
           /\ ucs = U(\h20A9) => result = 1

C6_Witness ==
    /\ ReturnedFrom("mk_wcwidth_cjk")
    /\ ucs = U(\h20A9)
    /\ result = 1

\* C7: at every point of every call both interval tables are non-empty,
\* have first <= last in every entry, and are strictly ascending:
\* table[i].last < table[i+1].first.
C7_TablesAscending ==
    pc \in {"call", "for_cond", "for_body", "return", "done"}
        => Ascending(combining) /\ Ascending(wide)

C7_Witness ==
    /\ ReturnedFrom("mk_wcwidth")
    /\ searched = <<"combining", "wide">>
    /\ InTable(ucs, wide)

\* C8: every code point in U+1160..U+11FF has width 0, and none of them is
\* in the zero-width table.
C8_HangulJamoIsZero ==
    (ReturnedFrom("mk_wcwidth") /\ Within(ucs, \h1160, \h11FF))
        => result = 0 /\ ~InTable(ucs, combining)

C8_Witness ==
    /\ ReturnedFrom("mk_wcwidth")
    /\ ucs = U(\h1160)
    /\ result = 0

\* C9: a code point from U+0300 on that is neither in the zero-width table
\* nor in U+1160..U+11FF has width 2 when it is in the wide table and width
\* 1 when it is not; below U+1100 the width is 1.
C9_RestIsWideOrNarrow ==
    (/\ ReturnedFrom("mk_wcwidth")
     /\ Ge(ucs, U(\h0300))
     /\ ~InTable(ucs, combining)
     /\ ~Within(ucs, \h1160, \h11FF))
        => /\ result = IF InTable(ucs, wide) THEN 2 ELSE 1
           /\ Lt(ucs, U(\h1100)) => result = 1

C9_Witness ==
    /\ ReturnedFrom("mk_wcwidth")
    /\ ucs = U(\hA48D)
    /\ ~InTable(ucs, wide)
    /\ result = 1

\* C10: mk_wcswidth_cjk keeps the contract of mk_wcswidth with
\* mk_wcwidth_cjk as the classifier: at every evaluation of the loop
\* condition the elements passed are within the first k, n has been counted
\* down once for each and width is the sum of their widths; it returns -1
\* when a consumed element has width -1 and the sum over all k otherwise.
C10_CjkSumSameContract ==
    op = "mk_wcswidth_cjk"
        => /\ pc = "for_cond"
              => /\ pwcs <= Consumed(s, limit)
                 /\ n = limit - pwcs
                 /\ \A j \in 1 .. pwcs : mk_wcwidth_cjk(s[j]) # -1
                 /\ width = Sum(WidthsCjk(s, pwcs))
           /\ pc = "done"
              => result = AllOrNothing(WidthsCjk(s, Consumed(s, limit)))

C10_Witness ==
    /\ ReturnedFrom("mk_wcswidth_cjk")
    /\ s = <<U(\hA1), U(\h41), U(\hA1)>>
    /\ limit = 2
    /\ result = 3

\* C11: whatever the array and n, mk_wcswidth returns an integer >= -1:
\* the accumulator never wraps to a negative or otherwise wrong value.
C11_SumNeverBelowMinusOne ==
    ReturnedFrom("mk_wcswidth") => result >= -1

\* C15: every value above U+10FFFF has width 1 from mk_wcwidth and from
\* mk_wcwidth_cjk: both tables are searched, each search returns from the
\* test against the last interval, and no other rule gives a width.
C15_AboveUnicodeIsNarrow ==
    (/\ pc = "done"
     /\ op \in {"mk_wcwidth", "mk_wcwidth_cjk"}
     /\ Gt(ucs, U(\h10FFFF)))
        => /\ result = 1
           /\ searched = <<"combining", "wide">>
           /\ bisearch_entry(ucs, combining, LastIndex(combining)).pc = "return"
           /\ bisearch_entry(ucs, wide, LastIndex(wide)).pc = "return"

C15_Witness ==
    /\ ReturnedFrom("mk_wcwidth_cjk")
    /\ ucs = UINT_MAX
    /\ searched = <<"combining", "wide">>
    /\ result = 1

\* C16: mk_wcswidth and mk_wcswidth_cjk never read an element at an index
\* >= n: every evaluation of the loop condition, which reads *pwcs, finds
\* the cursor below n.
C16_NeverReadsAtOrPastN ==
    [][(pc = "for_cond" /\ pc' # "for_cond") => pwcs < limit]_vars

\* c is a C0 control other than NUL, DEL or a C1 control
InControlBands(c) == Within(c, 1, \h1F) \/ Within(c, \h7F, \h9F)

\* C17: mk_wcwidth and mk_wcwidth_cjk return -1 exactly for the code points
\* in U+0001..U+001F and U+007F..U+009F, and mk_wcswidth and
\* mk_wcswidth_cjk return -1 exactly when one of the consumed elements is
\* such a code point.
C17_MinusOneIsControlBands ==
    pc = "done"
        => IF op \in {"mk_wcwidth", "mk_wcwidth_cjk"}
           THEN result = -1 <=> InControlBands(ucs)
           ELSE result = -1
                  <=> \E j \in 1 .. Consumed(s, limit) : InControlBands(s[j])

C17_Witness ==
    /\ ReturnedFrom("mk_wcswidth_cjk")
    /\ Len(s) = 3
    /\ ~InControlBands(s[1])
    /\ InControlBands(s[2])
    /\ result = -1

\* the thread t has returned from a bisearch called on its own
Searched(t) == th[t].op = "bisearch" /\ th[t].pc = "done"

\* the table the thread t searches
TableOf(t) == tables[th[t].tab]

\* C13: on a non-empty, strictly ascending table bisearch returns 1 exactly
\* when the code point lies in some interval, as a scan of the whole table
\* tells: also below the first interval, above the last and in a gap.
C13_SearchAgreesWithScan ==
    \A t \in DOMAIN th :
       (Searched(t) /\ Ascending(TableOf(t)))
          => th[t].result = IF InTable(th[t].ucs, TableOf(t)) THEN 1 ELSE 0

C13_Witness ==
    \E t \in DOMAIN th :
       /\ Searched(t)
       /\ Len(TableOf(t)) = 3
       /\ Gt(th[t].ucs, TableOf(t)[2].last)
       /\ Lt(th[t].ucs, TableOf(t)[3].first)
       /\ th[t].probes = 2
       /\ th[t].result = 0

RECURSIVE Log2Floor(_)
Log2Floor(k) == IF k <= 1 THEN 0 ELSE 1 + Log2Floor(k \div 2)

\* C14: every iteration of the search loop that does not return leaves the
\* index range [min, max] strictly smaller, and the loop inspects at most
\* floor(log2(N)) + 1 intervals of a table of N before it returns.
C14_SearchShrinksAndIsLogarithmic ==
    [][\A t \in DOMAIN th :
          (th[t].pc = "search" /\ th[t].b.pc = "loop" /\ th'[t] # th[t])
             => /\ th'[t].b.pc = "loop"
                   => th'[t].b.max - th'[t].b.min < th[t].b.max - th[t].b.min
                /\ th'[t].b.pc \in {"loop", "return"}
                /\ th'[t].probes <= Log2Floor(Len(TableOf(t))) + 1]_vars

C14_Witness ==
    \E t \in DOMAIN th :
       /\ Searched(t)
       /\ Len(TableOf(t)) = 278
       /\ th[t].probes = 9

\* C18: while bisearch runs on a table of N >= 1 intervals, called with
\* max = N - 1, no access leaves the table: 0 <= min <= N and
\* -1 <= max <= N - 1 throughout, and when the loop body runs
\* 0 <= min <= mid <= max <= N - 1.
C18_SearchStaysInsideTable ==
    \A t \in DOMAIN th :
       th[t].pc = "search"
          => LET b == th[t].b
                 N == Len(TableOf(t))
                 mid == (b.min + b.max) \div 2
             IN  /\ b.pc # "fault"
                 /\ 0 <= b.min /\ b.min <= N
                 /\ -1 <= b.max /\ b.max <= N - 1
                 /\ (b.pc = "loop" /\ b.max >= b.min)
                       => /\ b.min <= mid /\ mid <= b.max
                          /\ InArray(TableOf(t), mid)

C18_Witness ==
    \E t \in DOMAIN th :
       /\ th[t].pc = "search"
       /\ TableOf(t) = wide
       /\ th[t].b.pc = "loop"
       /\ th[t].b.min = th[t].b.max
       /\ th[t].b.max = LastIndex(wide)

\* the value the call of frame l returns when it runs alone
Alone(l) ==
    CASE l.op = "mk_wcwidth" -> mk_wcwidth(l.ucs)
      [] l.op = "mk_wcwidth_cjk" -> mk_wcwidth_cjk(l.ucs)
      [] l.op = "mk_wcswidth" ->
            AllOrNothing(Widths(l.s, Consumed(l.s, l.limit)))
      [] l.op = "mk_wcswidth_cjk" ->
            AllOrNothing(WidthsCjk(l.s, Consumed(l.s, l.limit)))

\* C12: however the steps of concurrent calls interleave, no step writes to
\* an interval table or to the frame of another call, and every call
\* returns the value it returns when it runs alone on the same arguments.
C12_CallsDoNotInterfere ==
    [][/\ tables' = tables
       /\ \A t, u \in DOMAIN th :
             (t # u /\ th'[t] # th[t]) => th'[u] = th[u]
       /\ \A t \in DOMAIN th :
             th'[t].pc = "done" => th'[t].result = Alone(th'[t])]_vars

C12_Witness ==
    /\ th[1].op = "mk_wcswidth_cjk"
    /\ th[1].pc = "search"
    /\ th[1].tab = "wide"
    /\ th[1].probes >= 2
    /\ th[2].op = "mk_wcwidth"
    /\ th[2].pc = "search"
    /\ th[2].tab = "combining"
    /\ th[2].b.pc = "loop"
    /\ th[2].probes >= 2

=============================================================================
